---- MODULE Spec2Model ----
(***************************************************************************)
(* Laguerre-Volterra network (class LVN of laguerre_volterra_network.py).  *)
(*                                                                         *)
(* One LVN object lives in one Python process.  The operations are the     *)
(* constructor, the two setters, propagate_laguerre_filterbank,            *)
(* compute_enhanced_input and predict.  Every sanity check of the source   *)
(* ends in exit(-1), which ends the process; other failures are the        *)
(* Python exceptions numpy and the interpreter raise.                      *)
(*                                                                         *)
(* Numbers.  The source computes in floating point; the model computes     *)
(* exactly, in the field Q(sqrt 3) extended by NaN: a number is            *)
(* (n + s*sqrt(3)) / d, with d = 0 standing for NaN.  This is enough to    *)
(* hold sqrt(alpha) and sqrt(1 - alpha) for the poles offered to the       *)
(* calls (1/4, 1, 4) and every value computed from them.  Rounding is not  *)
(* modelled.                                                               *)
(***************************************************************************)
EXTENDS Integers, Sequences, FiniteSets, TLC

(***************************************************************************)
(* Bounds of the model.                                                    *)
(***************************************************************************)
MaxL == 2      \* largest laguerre_order offered to the constructor
MaxH == 2      \* largest num_hidden_units offered to the constructor
MaxQ == 2      \* largest polynomial_order offered to the constructor
MaxN == 2      \* longest input signal offered to a call

(***************************************************************************)
(* Arithmetic                                                              *)
(***************************************************************************)
Abs(x) == IF x < 0 THEN -x ELSE x

RECURSIVE GCD(_, _)
GCD(a, b) == IF b = 0 THEN a ELSE GCD(b, a % b)

NaN == [n |-> 0, s |-> 0, d |-> 0]

IsNaN(x) == x.d = 0

\* (n + s*sqrt(3)) / d in lowest terms with d > 0
Norm(n, s, d) ==
    IF d = 0 THEN NaN
    ELSE LET g  == GCD(GCD(Abs(n), Abs(s)), Abs(d))
             sg == IF d < 0 THEN -1 ELSE 1
         IN  [n |-> (sg * n) \div g, s |-> (sg * s) \div g, d |-> Abs(d) \div g]

Num(n, d) == Norm(n, 0, d)

Zero == Num(0, 1)
One == Num(1, 1)

Add(x, y) ==
    IF IsNaN(x) \/ IsNaN(y) THEN NaN
    ELSE LET g == GCD(x.d, y.d)
             fx == y.d \div g
             fy == x.d \div g
         IN  Norm(x.n * fx + y.n * fy, x.s * fx + y.s * fy, x.d * fx)

Neg(x) == [x EXCEPT !.n = -x.n, !.s = -x.s]

Sub(x, y) == Add(x, Neg(y))

Mul(x, y) ==
    IF IsNaN(x) \/ IsNaN(y) THEN NaN
    ELSE Norm(x.n * y.n + 3 * x.s * y.s, x.n * y.s + x.s * y.n, x.d * y.d)

\* np.power(x, q) for an integer exponent q >= 1
RECURSIVE Power(_, _)
Power(x, q) == IF q <= 1 THEN x ELSE Mul(x, Power(x, q - 1))

\* the comparison  x <= 0  of the sanity checks (x rational)
LeZero(x) == x.n <= 0

\* int(x) for a positive rational x: truncation
Trunc(x) == x.n \div x.d

IsSquare(k) == \E r \in 0..k : r * r = k
Root(k) == CHOOSE r \in 0..k : r * r = k

\* math.sqrt / np.sqrt of a rational: NaN below zero (np.sqrt), exact where the
\* root is rational or a rational multiple of sqrt(3)
Sqrt(x) ==
    IF IsNaN(x) \/ x.n < 0 THEN NaN
    ELSE IF IsSquare(x.n) /\ IsSquare(x.d) THEN Norm(Root(x.n), 0, Root(x.d))
    ELSE Norm(0, Root(x.n \div 3), Root(x.d))

(***************************************************************************)
(* Python values handed to and kept by the object: None, a number, or an   *)
(* array (a list or ndarray) with its shape and its data in row order.     *)
(***************************************************************************)
None == [kind |-> "None", shape |-> <<>>, data |-> <<>>]

Scalar(x) == [kind |-> "scalar", shape |-> <<>>, data |-> <<x>>]

Array(shape, data) == [kind |-> "array", shape |-> shape, data |-> data]

\* isinstance(v, Iterable)
IsIterable(v) == v.kind = "array"

\* np.shape(v)
Shape(v) == v.shape

\* entry (i, j) of a two-dimensional array, indices from 0
At(A, i, j) == A.data[i * A.shape[2] + j + 1]

\* A[i, j] = v
Put(A, i, j, v) == [A EXCEPT !.data[i * A.shape[2] + j + 1] = v]

\* np.zeros((r, c)) and np.ones((r, c))
Zeros(r, c) == Array(<<r, c>>, [k \in 1..(r * c) |-> Zero])
Ones(r, c) == Array(<<r, c>>, [k \in 1..(r * c) |-> One])

\* the array built from an entry rule
Build(r, c, f(_, _)) ==
    Array(<<r, c>>, [k \in 1..(r * c) |-> f((k - 1) \div c, (k - 1) % c)])

\* A.T
Transposed(A) == Build(A.shape[2], A.shape[1], LAMBDA i, j : At(A, j, i))

RECURSIVE DotFrom(_, _, _, _, _)
DotFrom(A, i, B, j, k) ==
    IF k >= A.shape[2] THEN Zero
    ELSE Add(Mul(At(A, i, k), At(B, k, j)), DotFrom(A, i, B, j, k + 1))

\* A @ B for two-dimensional A (r, m) and B (m, c)
MatMul(A, B) == Build(A.shape[1], B.shape[2], LAMBDA i, j : DotFrom(A, i, B, j, 0))

\* A @ v for two-dimensional A (r, m) and one-dimensional v (m): shape (r)
MatVec(A, v) ==
    Array(<<A.shape[1]>>, MatMul(A, Array(<<v.shape[1], 1>>, v.data)).data)

\* np.hstack((A, B)) for A (r, ca) and B (r, cb)
HStack(A, B) ==
    Build(A.shape[1], A.shape[2] + B.shape[2],
          LAMBDA i, j : IF j < A.shape[2] THEN At(A, i, j) ELSE At(B, i, j - A.shape[2]))

\* A[:, 1:]
DropFirstColumn(A) ==
    Build(A.shape[1], A.shape[2] - 1, LAMBDA i, j : At(A, i, j + 1))

\* A[:, start : start + B.shape[1]] = B
SetColumns(A, start, B) ==
    Build(A.shape[1], A.shape[2],
          LAMBDA i, j : IF j >= start /\ j < start + B.shape[2]
                        THEN At(B, i, j - start) ELSE At(A, i, j))

(***************************************************************************)
(* The process and its LVN object                                          *)
(***************************************************************************)
VARIABLES
    alive,                    \* the Python process is running
    created,                  \* __init__ has returned an object
    L, H, Q, T, bo_link,      \* self.L, self.H, self.Q, self.T, self.bo_link
    connection_weights,       \* self.connection_weights
    polynomial_coefficients,  \* self.polynomial_coefficients
    last,                     \* the latest call: its arguments and its outcome
    bank_outputs,             \* propagate: the local matrix bank_outputs
    loop,                     \* propagate: where the loops stand
    trail,                    \* propagate: what the passes so far have read and written
    session                   \* a caller that predicts with c1, with c2 and with c1 + c2

object == <<created, L, H, Q, T, bo_link, connection_weights, polynomial_coefficients>>

\* outcomes of a call
Ok(v) == [outcome |-> "ok", line |-> 0, value |-> v]
\* print(...); exit(-1) at the given source line
Exit(line) == [outcome |-> "exit", line |-> line, value |-> None]
\* an exception raised at the given source line
Raise(exc, line) == [outcome |-> exc, line |-> line, value |-> None]

\* len(v) of a one-dimensional array
PyLen(v) == v.shape[1]

(***************************************************************************)
(* propagate_laguerre_filterbank                                           *)
(***************************************************************************)
\* line 75, one pass of the loop over the samples for order 0
PropagateOrder0(bank, n, sample, alpha_sqrt, alpha) ==
    Put(bank, 0, n + 1,
        Add(Mul(alpha_sqrt, At(bank, 0, n - 1 + 1)),
            Mul(Mul(T, Sqrt(Sub(One, alpha))), sample)))

\* line 80 with the order below read at time n twice and never at time n - 1
PropagateOrderJStale(bank, j, n, alpha_sqrt) ==
    Put(bank, j, n + 1,
        Sub(Mul(alpha_sqrt, Add(At(bank, j, n - 1 + 1), At(bank, j - 1, n + 1))),
            At(bank, j - 1, n + 1)))

\* line 80, one pass of the inner loop for an order j >= 1
PropagateOrderJ(bank, j, n, alpha_sqrt) ==
    Put(bank, j, n + 1,
        Sub(Mul(alpha_sqrt, Add(At(bank, j, n - 1 + 1), At(bank, j - 1, n + 1))),
            At(bank, j - 1, n - 1 + 1)))

\* lines 74-75: for n, sample in enumerate(signal)
RECURSIVE LoopOrder0(_, _, _, _)
LoopOrder0(bank, n, signal, alpha) ==
    IF n >= PyLen(signal) THEN bank
    ELSE LoopOrder0(PropagateOrder0(bank, n, signal.data[n + 1], Sqrt(alpha), alpha),
                    n + 1, signal, alpha)

\* lines 78-80: for j in range(1, L): for n in range(len(signal))
RECURSIVE LoopOrders(_, _, _, _, _)
LoopOrders(bank, j, n, signal, alpha) ==
    IF j >= L THEN bank
    ELSE IF n >= PyLen(signal) THEN LoopOrders(bank, j + 1, 0, signal, alpha)
    ELSE LoopOrders(PropagateOrderJ(bank, j, n, Sqrt(alpha)), j, n + 1, signal, alpha)

propagate_laguerre_filterbank(signal, alpha) ==
    IF ~IsIterable(signal) THEN Exit(63)
    ELSE IF LeZero(alpha) THEN Exit(66)
    ELSE IF L = 0 /\ PyLen(signal) > 0 THEN Raise("IndexError", 75)
    ELSE Ok(DropFirstColumn(
                LoopOrders(LoopOrder0(Zeros(L, 1 + PyLen(signal)), 0, signal, alpha),
                           1, 0, signal, alpha)))

(***************************************************************************)
(* compute_enhanced_input                                                  *)
(***************************************************************************)
\* np.power(A, q), entry by entry
PowerAll(A, q) == Build(A.shape[1], A.shape[2], LAMBDA i, j : Power(At(A, i, j), q))

\* lines 129-136: the index of the first polynomial degree written
FirstIndex == IF bo_link THEN 2 ELSE 1

\* lines 130 and 135: the width of the matrix of ones
OnesWidth == IF bo_link THEN H * (Q - 1) + 1 ELSE H * Q + 1

\* line 141 with the degree counted from 1 whatever first_index is
BlockStartFromOne(q) == 1 + (q - 1) * H

\* line 141: the first column of the block of degree q
BlockStart(q) == 1 + (q - FirstIndex) * H

\* lines 140-141: for q in range(first_index, Q + 1)
RECURSIVE FillBlocks(_, _, _)
FillBlocks(enhanced_input, q, hidden_nodes_in) ==
    IF q > Q THEN enhanced_input
    ELSE FillBlocks(SetColumns(enhanced_input, BlockStart(q), PowerAll(hidden_nodes_in, q)),
                    q + 1, hidden_nodes_in)

\* lines 123-148, once the filter bank has answered
EnhancedInput(N, laguerre_outputs) ==
    LET hidden_nodes_in == MatMul(Transposed(laguerre_outputs), connection_weights)
        filled == FillBlocks(Ones(N, OnesWidth), FirstIndex, hidden_nodes_in)
    IN  IF bo_link THEN HStack(filled, Transposed(laguerre_outputs)) ELSE filled

compute_enhanced_input(signal, alpha) ==
    IF ~IsIterable(connection_weights) THEN Exit(112)
    ELSE IF LeZero(alpha) THEN Exit(115)
    ELSE IF ~IsIterable(signal) THEN Raise("TypeError", 118)
    ELSE LET laguerre == propagate_laguerre_filterbank(signal, alpha)
         IN  IF laguerre.outcome # "ok" THEN laguerre
             ELSE IF OnesWidth < 0 THEN Raise("ValueError", 130)
             ELSE Ok(EnhancedInput(PyLen(signal), laguerre.value))

(***************************************************************************)
(* predict                                                                 *)
(***************************************************************************)
\* line 163 with the output offset added once more, outside the coefficients
ReadoutPlusOffset(enhanced_input, coefficients) ==
    LET product == IF Len(Shape(coefficients)) = 1 THEN MatVec(enhanced_input, coefficients)
                   ELSE MatMul(enhanced_input, coefficients)
    IN  [product EXCEPT !.data = [k \in DOMAIN product.data |-> Add(product.data[k], One)]]

\* line 163: enhanced_input @ self.polynomial_coefficients
Readout(enhanced_input, coefficients) ==
    IF Len(Shape(coefficients)) = 1 THEN MatVec(enhanced_input, coefficients)
    ELSE MatMul(enhanced_input, coefficients)

predict(in_signal, alpha) ==
    IF ~IsIterable(polynomial_coefficients) THEN Exit(157)
    ELSE IF ~IsIterable(in_signal) THEN Exit(160)
    ELSE LET enhanced == compute_enhanced_input(in_signal, alpha)
         IN  IF enhanced.outcome # "ok" THEN enhanced
             ELSE Ok(Readout(enhanced.value, polynomial_coefficients))

(***************************************************************************)
(* __init__ and the setters                                                *)
(***************************************************************************)
\* lines 30-39: the sanity check of the constructor
LVN_init(laguerre_order, num_hidden_units, polynomial_order, sampling_interval, bo) ==
    IF LeZero(laguerre_order) \/ LeZero(num_hidden_units) \/ LeZero(polynomial_order)
    THEN Exit(33)
    ELSE IF LeZero(sampling_interval) THEN Exit(36)
    ELSE IF ~bo.isbool THEN Exit(39)
    ELSE Ok(None)

\* lines 98 and 101: the length the first dimension is compared with
CoefficientLength == IF bo_link THEN H * (Q - 1) + L + 1 ELSE H * Q + 1

set_connection_weights(weights) ==
    IF Shape(weights) # <<L, H>> THEN Exit(90) ELSE Ok(None)

set_polynomial_coefficients(coefficients) ==
    IF Len(Shape(coefficients)) = 0
    THEN Raise("IndexError", IF bo_link THEN 98 ELSE 101)
    ELSE IF bo_link /\ Shape(coefficients)[1] # CoefficientLength THEN Exit(100)
    ELSE IF ~bo_link /\ Shape(coefficients)[1] # CoefficientLength THEN Exit(103)
    ELSE Ok(None)

(***************************************************************************)
(* Arguments offered to the calls                                          *)
(***************************************************************************)
\* structural parameters: zero, a half, the whole numbers up to max, max and a half
ParamArgs(max) ==
    {Num(0, 1), Num(1, 2), Num(2 * max + 1, 2)} \cup {Num(k, 1) : k \in 1..max}

SamplingArgs == {Num(0, 1), Num(2, 1)}

\* a Python bool, or an int used as a flag
BoArgs == {[isbool |-> TRUE, val |-> TRUE], [isbool |-> TRUE, val |-> FALSE],
           [isbool |-> FALSE, val |-> TRUE]}

AlphaArgs == {Num(0, 1), Num(1, 4), Num(1, 1), Num(4, 1)}

Vector(len, f(_)) == Array(<<len>>, [k \in 1..len |-> f(k - 1)])

SignalArgs ==
    {Vector(len, LAMBDA n : IF n = 0 THEN One ELSE Zero) : len \in 0..MaxN}
    \cup {Vector(len, LAMBDA n : Num(n + 1, 1)) : len \in 0..MaxN}
    \cup {Scalar(One)}

WeightArgs ==
    {Build(r, c, LAMBDA i, j : One) : r \in 0..MaxL, c \in 0..MaxH}
    \cup {Build(r, c, LAMBDA i, j : Num(1 + i - 2 * j, 1)) : r \in 0..MaxL, c \in 0..MaxH}

\* the longest coefficient vector any offered structure asks for
MaxF == IF MaxL > MaxH THEN MaxH * (MaxQ - 1) + MaxL + 1 ELSE MaxH * MaxQ + 1

CoefficientVectors ==
    {Vector(len, LAMBDA i : One) : len \in 0..MaxF}
    \cup {Vector(len, LAMBDA i : Num(i - 1, 1)) : len \in 0..MaxF}

CoefficientArgs ==
    CoefficientVectors
    \cup {Build(len, 2, LAMBDA i, j : Num(i + j, 1)) : len \in 0..MaxF}
    \cup {Scalar(One)}

(***************************************************************************)
(* The calls                                                               *)
(***************************************************************************)
NoParams == <<>>
NoFlag == [isbool |-> TRUE, val |-> FALSE]

\* no call is under way and no result is held
Idle ==
    [op |-> "none", params |-> NoParams, bo |-> NoFlag, arg |-> None, alpha |-> Num(0, 1),
     outcome |-> "ok", line |-> 0, value |-> None]

Called(op, params, bo, arg, alpha, result) ==
    [op |-> op, params |-> params, bo |-> bo, arg |-> arg, alpha |-> alpha,
     outcome |-> result.outcome, line |-> result.line, value |-> result.value]

\* exit(-1) ends the process; an exception goes to the caller
Returns(result) == alive' = (result.outcome # "exit")

Create(l, h, q, t, bo) ==
    /\ alive /\ last = Idle /\ ~created
    /\ LET result == LVN_init(l, h, q, t, bo)
       IN  /\ last' = Called("create", <<l, h, q, t>>, bo, None, Zero, result)
           /\ Returns(result)
           /\ IF result.outcome = "ok"
              THEN /\ created' = TRUE
                   /\ L' = Trunc(l)
                   /\ H' = Trunc(h)
                   /\ Q' = Trunc(q)
                   /\ T' = t
                   /\ bo_link' = bo.val
                   /\ connection_weights' = None
                   /\ polynomial_coefficients' = None
              ELSE UNCHANGED object

SetConnectionWeights(weights) ==
    /\ alive /\ last = Idle /\ created
    /\ LET result == set_connection_weights(weights)
       IN  /\ last' = Called("set_connection_weights", NoParams, NoFlag, weights, Zero, result)
           /\ Returns(result)
           /\ connection_weights' =
                  IF result.outcome = "ok" THEN weights ELSE connection_weights
           /\ UNCHANGED <<created, L, H, Q, T, bo_link, polynomial_coefficients>>

SetPolynomialCoefficients(coefficients) ==
    /\ alive /\ last = Idle /\ created
    /\ LET result == set_polynomial_coefficients(coefficients)
       IN  /\ last' = Called("set_polynomial_coefficients", NoParams, NoFlag,
                             coefficients, Zero, result)
           /\ Returns(result)
           /\ polynomial_coefficients' =
                  IF result.outcome = "ok" THEN coefficients ELSE polynomial_coefficients
           /\ UNCHANGED <<created, L, H, Q, T, bo_link, connection_weights>>

\* propagate keeping T * sqrt(1 - alpha) in self.T for the next call
PropagateCaching(signal, alpha) ==
    /\ alive /\ last = Idle /\ created
    /\ LET result == propagate_laguerre_filterbank(signal, alpha)
       IN  /\ last' = Called("propagate", NoParams, NoFlag, signal, alpha, result)
           /\ Returns(result)
           /\ T' = IF result.outcome = "ok" THEN Mul(T, Sqrt(Sub(One, alpha))) ELSE T
    /\ UNCHANGED <<created, L, H, Q, bo_link, connection_weights, polynomial_coefficients>>

Propagate(signal, alpha) ==
    /\ alive /\ last = Idle /\ created
    /\ LET result == propagate_laguerre_filterbank(signal, alpha)
       IN  /\ last' = Called("propagate", NoParams, NoFlag, signal, alpha, result)
           /\ Returns(result)
    /\ UNCHANGED object

Compute(signal, alpha) ==
    /\ alive /\ last = Idle /\ created
    /\ LET result == compute_enhanced_input(signal, alpha)
       IN  /\ last' = Called("compute", NoParams, NoFlag, signal, alpha, result)
           /\ Returns(result)
    /\ UNCHANGED object

Predict(signal, alpha) ==
    /\ alive /\ last = Idle /\ created
    /\ LET result == predict(signal, alpha)
       IN  /\ last' = Called("predict", NoParams, NoFlag, signal, alpha, result)
           /\ Returns(result)
    /\ UNCHANGED object

\* the caller is done with the value a call returned, or has handled the
\* exception it raised, and goes on
CallerContinues ==
    /\ alive /\ last # Idle
    /\ last' = Idle
    /\ UNCHANGED <<alive, object>>

NoBank == None
NoLoop == [at |-> "none", j |-> 0, n |-> 0, signal |-> None, alpha |-> Num(0, 1)]
NoTrail == [passes |-> 0, final |-> {}, target |-> <<>>, reads |-> {}]
NoSession == [at |-> "none", c1 |-> None, c2 |-> None, signal |-> None,
              alpha |-> Num(0, 1), y |-> <<>>]

stepping == <<bank_outputs, loop, trail>>

vars == <<alive, object, last, stepping, session>>

Init ==
    /\ alive = TRUE
    /\ created = FALSE
    /\ L = 0 /\ H = 0 /\ Q = 0 /\ T = Zero /\ bo_link = FALSE
    /\ connection_weights = None
    /\ polynomial_coefficients = None
    /\ last = Idle
    /\ bank_outputs = NoBank /\ loop = NoLoop /\ trail = NoTrail
    /\ session = NoSession

DoCreate ==
    /\ \E l \in ParamArgs(MaxL), h \in ParamArgs(MaxH), q \in ParamArgs(MaxQ),
          t \in SamplingArgs, bo \in BoArgs : Create(l, h, q, t, bo)
    /\ UNCHANGED <<stepping, session>>
DoSetConnectionWeights ==
    /\ \E w \in WeightArgs : SetConnectionWeights(w)
    /\ UNCHANGED <<stepping, session>>
DoSetPolynomialCoefficients ==
    /\ \E c \in CoefficientArgs : SetPolynomialCoefficients(c)
    /\ UNCHANGED <<stepping, session>>
DoPropagate ==
    /\ \E signal \in SignalArgs, alpha \in AlphaArgs : Propagate(signal, alpha)
    /\ UNCHANGED <<stepping, session>>
DoCompute ==
    /\ \E signal \in SignalArgs, alpha \in AlphaArgs : Compute(signal, alpha)
    /\ UNCHANGED <<stepping, session>>
DoPredict ==
    /\ \E signal \in SignalArgs, alpha \in AlphaArgs : Predict(signal, alpha)
    /\ UNCHANGED <<stepping, session>>
DoContinue ==
    /\ CallerContinues
    /\ UNCHANGED <<stepping, session>>

Next ==
    \/ DoCreate
    \/ DoSetConnectionWeights
    \/ DoSetPolynomialCoefficients
    \/ DoPropagate
    \/ DoCompute
    \/ DoPredict
    \/ DoContinue

Spec == Init /\ [][Next]_vars

(***************************************************************************)
(* propagate_laguerre_filterbank pass by pass: the two loops of lines      *)
(* 74-80 and the slice of line 82, for one call on an object the           *)
(* constructor returned.  trail records the entry each pass assigns and    *)
(* the entries it reads.                                                   *)
(***************************************************************************)
PositiveAlphas == {alpha \in AlphaArgs : ~LeZero(alpha)}
IterableSignals == {signal \in SignalArgs : IsIterable(signal)}
AcceptedOrders == {Trunc(l) : l \in {x \in ParamArgs(MaxL) : ~LeZero(x)}}
AcceptedSampling == {t \in SamplingArgs : ~LeZero(t)}

InitPropagate ==
    /\ alive = TRUE
    /\ created = TRUE
    /\ L \in AcceptedOrders
    /\ H = 1 /\ Q = 1 /\ bo_link = FALSE
    /\ T \in AcceptedSampling
    /\ connection_weights = None
    /\ polynomial_coefficients = None
    /\ last = Idle
    /\ \E signal \in IterableSignals, alpha \in PositiveAlphas :
          /\ loop = [at |-> "order0", j |-> 0, n |-> 0, signal |-> signal, alpha |-> alpha]
          /\ bank_outputs = Zeros(L, 1 + PyLen(signal))
    /\ trail = NoTrail
    /\ session = NoSession

Passed(target, reads) ==
    trail' = [passes |-> trail.passes + 1, final |-> trail.final \cup {target},
              target |-> target, reads |-> reads]

\* line 75
PassOrder0 ==
    /\ loop.at = "order0" /\ loop.n < PyLen(loop.signal) /\ L > 0
    /\ bank_outputs' = PropagateOrder0(bank_outputs, loop.n, loop.signal.data[loop.n + 1],
                                       Sqrt(loop.alpha), loop.alpha)
    /\ Passed(<<0, loop.n + 1>>, {<<0, loop.n - 1 + 1>>})
    /\ loop' = [loop EXCEPT !.n = loop.n + 1]
    /\ UNCHANGED <<alive, object, last, session>>

\* line 75 on a bank without rows: bank_outputs[0, n + 1] is out of range
PassOrder0OutOfRange ==
    /\ loop.at = "order0" /\ loop.n < PyLen(loop.signal) /\ L = 0
    /\ loop' = [loop EXCEPT !.at = "IndexError"]
    /\ UNCHANGED <<alive, object, last, bank_outputs, trail, session>>

\* line 78: the first loop is over, for j in range(1, L) starts
EndOrder0 ==
    /\ loop.at = "order0" /\ loop.n >= PyLen(loop.signal)
    /\ loop' = [loop EXCEPT !.at = "orders", !.j = 1, !.n = 0]
    /\ UNCHANGED <<alive, object, last, bank_outputs, trail, session>>

\* line 80
PassOrderJ ==
    /\ loop.at = "orders" /\ loop.j < L /\ loop.n < PyLen(loop.signal)
    /\ bank_outputs' = PropagateOrderJ(bank_outputs, loop.j, loop.n, Sqrt(loop.alpha))
    /\ Passed(<<loop.j, loop.n + 1>>,
              {<<loop.j, loop.n - 1 + 1>>, <<loop.j - 1, loop.n + 1>>,
               <<loop.j - 1, loop.n - 1 + 1>>})
    /\ loop' = [loop EXCEPT !.n = loop.n + 1]
    /\ UNCHANGED <<alive, object, last, session>>

\* line 78: the inner loop is over, the next j
NextOrder ==
    /\ loop.at = "orders" /\ loop.j < L /\ loop.n >= PyLen(loop.signal)
    /\ loop' = [loop EXCEPT !.j = loop.j + 1, !.n = 0]
    /\ UNCHANGED <<alive, object, last, bank_outputs, trail, session>>

\* lines 82-84
SliceAndReturn ==
    /\ loop.at = "orders" /\ loop.j >= L
    /\ bank_outputs' = DropFirstColumn(bank_outputs)
    /\ loop' = [loop EXCEPT !.at = "done"]
    /\ UNCHANGED <<alive, object, last, trail, session>>

NextPropagate ==
    \/ PassOrder0
    \/ PassOrder0OutOfRange
    \/ EndOrder0
    \/ PassOrderJ
    \/ NextOrder
    \/ SliceAndReturn

SpecPropagate == InitPropagate /\ [][NextPropagate]_vars

(***************************************************************************)
(* C1 - C6                                                                 *)
(***************************************************************************)
ErrorKinds == {"ConfigurationError", "ShapeError", "PreconditionError", "DomainError"}

\* C1: whatever is called with whatever input, the call returns or fails with
\* one of ConfigurationError, ShapeError, PreconditionError and DomainError,
\* and the process is never ended by the library.
C1_FailuresAreTypedErrors ==
    /\ alive
    /\ last.outcome \in {"ok"} \cup ErrorKinds

\* a structural argument that is a whole number >= 1
IsPositiveInteger(x) == x.d = 1 /\ x.n >= 1

\* C2: create fails (here: with any kind of failure) whenever one of L, H, Q is
\* no positive integer, T is not positive or bo_link is no boolean; so the
\* object create returns holds the L, H, Q it was given, all integers >= 1,
\* T > 0, and neither weights nor coefficients.
C2_CreateTakesPositiveIntegers ==
    /\ last.op = "create" =>
           IF /\ \A k \in 1..3 : IsPositiveInteger(last.params[k])
              /\ ~LeZero(last.params[4])
              /\ last.bo.isbool
           THEN last.outcome = "ok"
           ELSE last.outcome # "ok" /\ ~created
    /\ created =>
           /\ L >= 1 /\ H >= 1 /\ Q >= 1 /\ ~LeZero(T)
           /\ last.op = "create" =>
                  /\ Num(L, 1) = last.params[1]
                  /\ Num(H, 1) = last.params[2]
                  /\ Num(Q, 1) = last.params[3]
                  /\ connection_weights = None
                  /\ polynomial_coefficients = None

\* the structure the constructor is meant to accept
ValidStructure == L >= 1 /\ H >= 1 /\ Q >= 1

\* C3: on an object with L, H, Q >= 1, setPolynomialCoefficients succeeds only
\* for a vector of shape exactly (F), F = H*(Q-1)+L+1 if bo_link else H*Q+1; so
\* the stored coefficients, when set, are a one-dimensional vector of length F.
C3_CoefficientsAreAVectorOfLengthF ==
    ValidStructure =>
        /\ (last.op = "set_polynomial_coefficients" /\ last.outcome = "ok") =>
               Shape(last.arg) = <<CoefficientLength>>
        /\ polynomial_coefficients # None =>
               Shape(polynomial_coefficients) = <<CoefficientLength>>

\* C4: compute succeeds only with the weights set and predict only with the
\* weights and the coefficients set; called without them, they fail with
\* PreconditionError.
C4_UnmetPreconditionIsPreconditionError ==
    /\ (last.op = "compute" /\ last.outcome = "ok") => connection_weights # None
    /\ (last.op = "predict" /\ last.outcome = "ok") =>
           connection_weights # None /\ polynomial_coefficients # None
    /\ (last.op = "compute" /\ connection_weights = None) =>
           last.outcome = "PreconditionError"
    /\ (last.op = "predict"
            /\ (connection_weights = None \/ polynomial_coefficients = None)) =>
           last.outcome = "PreconditionError"

\* what holds of C4 whatever the kind of the failure: compute returns only with
\* the weights set, predict only with weights and coefficients set, and without
\* them the call ends at its first sanity check (lines 110-112, 155-160)
PreconditionsGuardTheCalls ==
    /\ (last.op = "compute" /\ last.outcome = "ok") => connection_weights # None
    /\ (last.op = "predict" /\ last.outcome = "ok") =>
           connection_weights # None /\ polynomial_coefficients # None
    /\ (last.op = "compute" /\ connection_weights = None) =>
           last.outcome = "exit" /\ last.line = 112
    /\ (last.op = "predict" /\ polynomial_coefficients = None) =>
           last.outcome = "exit" /\ last.line = 157
    /\ (last.op = "predict" /\ polynomial_coefficients # None /\ connection_weights = None) =>
           last.outcome = "exit" /\ last.line \in {112, 160}

\* C5: on an object with L, H, Q >= 1, a setter called with the shape it asks
\* for ((L, H) for the weights, (F) for the coefficients) stores its argument
\* and leaves the other parameter alone; called with any other shape it fails
\* (here: with any kind of failure) and leaves both as they were.
C5_SettersReplaceOrRefuse ==
    [][/\ (ValidStructure /\ last'.op = "set_connection_weights") =>
              /\ polynomial_coefficients' = polynomial_coefficients
              /\ IF Shape(last'.arg) = <<L, H>>
                 THEN last'.outcome = "ok" /\ connection_weights' = last'.arg
                 ELSE last'.outcome # "ok" /\ connection_weights' = connection_weights
       /\ (ValidStructure /\ last'.op = "set_polynomial_coefficients") =>
              /\ connection_weights' = connection_weights
              /\ IF Shape(last'.arg) = <<CoefficientLength>>
                 THEN last'.outcome = "ok" /\ polynomial_coefficients' = last'.arg
                 ELSE /\ last'.outcome # "ok"
                      /\ polynomial_coefficients' = polynomial_coefficients
      ]_vars

\* C6: on an object with L, H, Q >= 1, a successful compute on N samples
\* returns N rows and F columns, F the length setPolynomialCoefficients asks
\* for, and a successful predict returns a vector of length N.
C6_WidthMatchesCoefficients ==
    (ValidStructure /\ last.outcome = "ok") =>
        /\ last.op = "compute" => Shape(last.value) = <<PyLen(last.arg), CoefficientLength>>
        /\ last.op = "predict" => Shape(last.value) = <<PyLen(last.arg)>>

\* what holds of C6: the shape of what compute returns
ComputeWidthIsCoefficientLength ==
    (ValidStructure /\ last.outcome = "ok" /\ last.op = "compute") =>
        Shape(last.value) = <<PyLen(last.arg), CoefficientLength>>

(***************************************************************************)
(* C8                                                                      *)
(***************************************************************************)
\* the responses of order 0 to the first k samples, from the recursion of the
\* Laguerre filter: V_0[n] = sqrt(alpha)*V_0[n-1] + t*sqrt(1 - alpha)*x[n]
RECURSIVE ResponseOrder0(_, _, _, _)
ResponseOrder0(k, t, signal, alpha) ==
    IF k = 0 THEN <<>>
    ELSE LET earlier == ResponseOrder0(k - 1, t, signal, alpha)
             previous == IF k = 1 THEN Zero ELSE earlier[k - 1]
         IN  Append(earlier, Add(Mul(Sqrt(alpha), previous),
                                 Mul(Mul(t, Sqrt(Sub(One, alpha))), signal.data[k])))

\* the responses of the order above `below` to the first k samples:
\* V_j[n] = sqrt(alpha)*(V_j[n-1] + V_(j-1)[n]) - V_(j-1)[n-1]
RECURSIVE ResponseAbove(_, _, _)
ResponseAbove(k, below, alpha) ==
    IF k = 0 THEN <<>>
    ELSE LET earlier == ResponseAbove(k - 1, below, alpha)
             previous == IF k = 1 THEN Zero ELSE earlier[k - 1]
             previousBelow == IF k = 1 THEN Zero ELSE below[k - 1]
         IN  Append(earlier, Sub(Mul(Sqrt(alpha), Add(previous, below[k])), previousBelow))

\* the responses of order j to the whole signal
RECURSIVE Response(_, _, _, _)
Response(j, t, signal, alpha) ==
    IF j = 0 THEN ResponseOrder0(PyLen(signal), t, signal, alpha)
    ELSE ResponseAbove(PyLen(signal), Response(j - 1, t, signal, alpha), alpha)

\* C8: propagate, compute and predict, whether they return or fail, leave the
\* object as it was: L, H, Q, T, bo_link, the weights and the coefficients; and
\* what propagate returns is the (L, N) matrix that L, T, the signal and alpha
\* determine ((L, 0) for an empty signal), whatever was called before.
C8_CallsArePure ==
    [][last'.op \in {"propagate", "compute", "predict"} =>
           /\ object' = object
           /\ (last'.op = "propagate" /\ last'.outcome = "ok") =>
                  /\ Shape(last'.value) = <<L, PyLen(last'.arg)>>
                  /\ \A j \in 0..(L - 1) : \A n \in 0..(PyLen(last'.arg) - 1) :
                         At(last'.value, j, n) = Response(j, T, last'.arg, last'.alpha)[n + 1]
      ]_vars

\* propagate has returned a two-order response to MaxN samples on an object whose
\* weights and coefficients were set before, and an empty one for no samples
C8_Witness ==
    /\ last.op = "propagate" /\ last.outcome = "ok"
    /\ L >= 2 /\ IsIterable(connection_weights) /\ IsIterable(polynomial_coefficients)
    /\ last.alpha = Num(1, 4)
    /\ PyLen(last.arg) = MaxN
    /\ At(last.value, 1, MaxN - 1) # Zero

(***************************************************************************)
(* C9                                                                      *)
(***************************************************************************)
\* the input of hidden unit h at time n: the weighted sum of the bank's outputs
RECURSIVE HiddenInput(_, _, _, _)
HiddenInput(bank, n, h, j) ==
    IF j >= L THEN Zero
    ELSE Add(Mul(At(bank, j, n), At(connection_weights, j, h)),
             HiddenInput(bank, n, h, j + 1))

\* C9: on an object with L, H, Q >= 1, with first = 2 if bo_link else 1, the
\* matrix a successful compute returns has column 0 all ones; column
\* 1 + (d - first)*H + h holds the input of hidden unit h raised to the power d,
\* for d in first..Q and h in 0..H-1; these columns are pairwise different,
\* leave column 0 alone and are exactly the columns 1..H*(Q - first + 1); and with
\* bo_link the L columns to the right of them hold the bank's outputs, order j
\* in column H*(Q-1) + 1 + j, and there is no block of degree 1.
C9_EnhancedInputLayout ==
    (last.op = "compute" /\ last.outcome = "ok" /\ ValidStructure) =>
        LET E == last.value
            N == PyLen(last.arg)
            first == IF bo_link THEN 2 ELSE 1
            bank == propagate_laguerre_filterbank(last.arg, last.alpha).value
            column(d, h) == 1 + (d - first) * H + h
            blocks == {<<d, h>> : d \in first..Q, h \in 0..(H - 1)}
            width == H * (Q - first + 1) + 1 + (IF bo_link THEN L ELSE 0)
        IN  /\ Shape(E) = <<N, width>>
            /\ \A n \in 0..(N - 1) : At(E, n, 0) = One
            /\ \A b \in blocks : \A n \in 0..(N - 1) :
                   At(E, n, column(b[1], b[2])) = Power(HiddenInput(bank, n, b[2], 0), b[1])
            /\ \A b1 \in blocks, b2 \in blocks :
                   column(b1[1], b1[2]) = column(b2[1], b2[2]) => b1 = b2
            /\ {column(b[1], b[2]) : b \in blocks} = 1..(H * (Q - first + 1))
            /\ bo_link => \A j \in 0..(L - 1) : \A n \in 0..(N - 1) :
                   At(E, n, H * (Q - 1) + 1 + j) = At(bank, j, n)

\* compute has returned MaxN rows on an object with bo_link set and two hidden
\* units, whose squares differ from their inputs
C9_Witness ==
    /\ last.op = "compute" /\ last.outcome = "ok"
    /\ bo_link /\ L >= 2 /\ H >= 2 /\ Q >= 2
    /\ PyLen(last.arg) = MaxN /\ last.alpha = Num(1, 4)
    /\ At(last.value, MaxN - 1, 1) # At(last.value, MaxN - 1, 2)
    /\ At(last.value, MaxN - 1, 1) # One

(***************************************************************************)
(* A caller that, on one object with its weights set, predicts one signal  *)
(* three times: after set_polynomial_coefficients(c1), after               *)
(* set_polynomial_coefficients(c2) and after                               *)
(* set_polynomial_coefficients(c1 + c2).                                   *)
(***************************************************************************)
\* c1 + c2, entry by entry
VectorSum(c1, c2) == Array(Shape(c1), [k \in 1..PyLen(c1) |-> Add(c1.data[k], c2.data[k])])

InitLinear ==
    /\ alive = TRUE
    /\ created = TRUE
    /\ \E l \in ParamArgs(MaxL), h \in ParamArgs(MaxH), q \in ParamArgs(MaxQ),
          t \in SamplingArgs, bo \in BoArgs :
          /\ LVN_init(l, h, q, t, bo).outcome = "ok"
          /\ L = Trunc(l) /\ H = Trunc(h) /\ Q = Trunc(q) /\ T = t /\ bo_link = bo.val
    /\ connection_weights \in {w \in WeightArgs : set_connection_weights(w).outcome = "ok"}
    /\ polynomial_coefficients = None
    /\ last = Idle
    /\ bank_outputs = NoBank /\ loop = NoLoop /\ trail = NoTrail
    /\ \E c1 \in CoefficientVectors, c2 \in CoefficientVectors,
          signal \in IterableSignals, alpha \in PositiveAlphas :
          /\ set_polynomial_coefficients(c1).outcome = "ok"
          /\ set_polynomial_coefficients(c2).outcome = "ok"
          /\ session = [at |-> "set", c1 |-> c1, c2 |-> c2, signal |-> signal,
                        alpha |-> alpha, y |-> <<>>]

\* the coefficients of the next prediction
SessionCoefficients ==
    CASE Len(session.y) = 0 -> session.c1
      [] Len(session.y) = 1 -> session.c2
      [] OTHER -> VectorSum(session.c1, session.c2)

LinearSet ==
    /\ session.at = "set"
    /\ SetPolynomialCoefficients(SessionCoefficients)
    /\ session' = [session EXCEPT !.at = "predict"]
    /\ UNCHANGED stepping

LinearPredict ==
    /\ session.at = "predict"
    /\ Predict(session.signal, session.alpha)
    /\ session' = [session EXCEPT
                      !.y = Append(@, [outcome |-> last'.outcome, value |-> last'.value]),
                      !.at = IF Len(session.y) = 2 THEN "done" ELSE "set"]
    /\ UNCHANGED stepping

LinearContinue ==
    /\ CallerContinues
    /\ UNCHANGED <<stepping, session>>

NextLinear ==
    \/ LinearSet
    \/ LinearPredict
    \/ LinearContinue

SpecLinear == InitLinear /\ [][NextLinear]_vars

(***************************************************************************)
(* C7                                                                      *)
(***************************************************************************)
\* C7: with structure, weights, signal and alpha fixed, the prediction made
\* with coefficients c1 + c2 is, sample by sample, the sum of the prediction
\* made with c1 and the prediction made with c2.
C7_PredictLinearInCoefficients ==
    (session.at = "done" /\ \A k \in 1..3 : session.y[k].outcome = "ok") =>
        /\ \A k \in 1..3 : Shape(session.y[k].value) = <<PyLen(session.signal)>>
        /\ \A n \in 1..PyLen(session.signal) :
               session.y[3].value.data[n] =
                   Add(session.y[1].value.data[n], session.y[2].value.data[n])

\* three predictions of MaxN samples were made on a two-order bank with
\* different coefficients, and all their samples are finite and differ
C7_Witness ==
    /\ session.at = "done" /\ \A k \in 1..3 : session.y[k].outcome = "ok"
    /\ L >= 2 /\ H >= 2 /\ Q >= 2 /\ PyLen(session.signal) = MaxN
    /\ session.c1 # session.c2
    /\ \A n \in 1..MaxN :
           /\ ~IsNaN(session.y[3].value.data[n])
           /\ session.y[1].value.data[n] # session.y[2].value.data[n]
           /\ session.y[3].value.data[n] # session.y[1].value.data[n]

(***************************************************************************)
(* C10                                                                     *)
(***************************************************************************)
\* the value of order j at time n in a bank that still has its column for n = -1
Before(bank, j, n) == At(bank, j, n + 1)

\* the returned bank with the virtual sample put back: V_j[-1] = 0
Returned(bank, j, n) == IF n < 0 THEN Zero ELSE At(bank, j, n)

\* C10: while propagate runs, the column for n = -1 stays zero, every pass
\* assigns an entry no pass assigned before and reads only entries that are
\* final (assigned by an earlier pass, or the column for n = -1); the matrix it
\* returns is (L, N), without that column, and satisfies
\* V_0[n] = a*V_0[n-1] + b*x[n] and V_j[n] = a*(V_j[n-1] + V_(j-1)[n]) - V_(j-1)[n-1]
\* with a = sqrt(alpha) and b = T*sqrt(1 - alpha).
C10_LaguerreRecurrence ==
    LET N == PyLen(loop.signal)
        a == Sqrt(loop.alpha)
        b == Mul(T, Sqrt(Sub(One, loop.alpha)))
    IN  /\ loop.at \in {"order0", "orders"} =>
              /\ Shape(bank_outputs) = <<L, N + 1>>
              /\ \A j \in 0..(L - 1) : Before(bank_outputs, j, -1) = Zero
              /\ Cardinality(trail.final) = trail.passes
              /\ \A e \in trail.final : e[1] \in 0..(L - 1) /\ e[2] \in 1..N
              /\ trail.reads \subseteq
                     ((trail.final \ {trail.target}) \cup {<<j, 0>> : j \in 0..(L - 1)})
        /\ loop.at = "done" =>
              /\ Shape(bank_outputs) = <<L, N>>
              /\ trail.passes = L * N
              /\ \A n \in 0..(N - 1) :
                     L > 0 => Returned(bank_outputs, 0, n) =
                                  Add(Mul(a, Returned(bank_outputs, 0, n - 1)),
                                      Mul(b, loop.signal.data[n + 1]))
              /\ \A j \in 1..(L - 1) : \A n \in 0..(N - 1) :
                     Returned(bank_outputs, j, n) =
                         Sub(Mul(a, Add(Returned(bank_outputs, j, n - 1),
                                        Returned(bank_outputs, j - 1, n))),
                             Returned(bank_outputs, j - 1, n - 1))

\* a call with two orders and MaxN samples has returned finite, non-zero values
C10_Witness ==
    /\ loop.at = "done" /\ L >= 2 /\ PyLen(loop.signal) = MaxN
    /\ loop.alpha = Num(1, 4)
    /\ \A n \in 0..(MaxN - 1) :
           /\ ~IsNaN(At(bank_outputs, 1, n))
           /\ At(bank_outputs, 1, n) # Zero

====
